---------------------------- MODULE Spec2Model ----------------------------
(***************************************************************************)
(* University Microservice (src/main.py, src/models/course.py,             *)
(* src/models/enrollment.py): two in-memory dictionaries, courses and      *)
(* enrollments, behind FastAPI CRUD handlers.                              *)
(*                                                                         *)
(* Spec      every request is served on its own (one handler, start to     *)
(*           end, per step).                                               *)
(* SpecConc  the course handlers run in worker threads and interleave      *)
(*           between their statements (the handlers are plain "def"        *)
(*           functions, which the framework runs in a thread pool).        *)
(***************************************************************************)
EXTENDS Integers, Sequences, FiniteSets, TLC

VARIABLES
    courses,      \* main.py:26  Dict[UUID, CourseRead], insertion ordered
    enrollments,  \* main.py:27  Dict[UUID, EnrollmentRead], insertion ordered
    clock,        \* the system clock datetime.utcnow() reads
    issued,       \* how many identifiers uuid4() has handed out
    resp,         \* the last request served and its response
    born,         \* history: the identifiers inserted, in order
    gone,         \* history: identifiers whose DELETE answered 204
    writes,       \* history: how many requests have changed a store
    threads       \* SpecConc: the worker threads' positions and locals

vars ==
    <<courses, enrollments, clock, issued, resp, born, gone, writes, threads>>

----------------------------------------------------------------------------
(* Bounds of the model.                                                    *)

\* identifiers uuid4() can hand out in one run
MaxIds == 2
\* the last instant of the clock
MaxTime == 1
\* successful writes (create, update, delete) in one run
MaxWrites == 3
\* worker threads of SpecConc
MaxThreads == 2

UUIDs == 1..MaxIds

----------------------------------------------------------------------------
(* JSON values of a request body, and the values the models hold.          *)

JNull == [t |-> "null"]
JInt(n) == [t |-> "int", v |-> n]
JStr(s) == [t |-> "str", v |-> s]
JDate(s) == [t |-> "date", v |-> s]
JUuid(n) == [t |-> "uuid", v |-> n]

IsNull(x) == x.t = "null"
IsInt(x) == x.t = "int"
IsStr(x) == x.t = "str"

\* Characters of a course code.
Upper == {"A", "C", "M", "O", "S"}
Digit == {"0", "1", "4", "7"}
Space == {" "}

\* The strings the date parser accepts (YYYY-MM-DD).
IsoDates == {"2025-09-03", "2025-12-15"}

\* course.py:27  credits: ge=0
CreditsMin == 0
\* course.py:27  credits: le=6
CreditsMax == 6
\* course.py:27  credits: default 3
CreditsDefault == 3

\* course.py:8  [A-Z]{2,6}
CodeLettersMin == 2
CodeLettersMax == 6
\* course.py:8  \d{3,4}
CodeDigitsMin == 3
CodeDigitsMax == 4

\* The length of the longest prefix of s whose characters are all in cls.
RECURSIVE Run(_, _)
Run(s, cls) ==
    IF s = <<>> \/ Head(s) \notin cls THEN 0 ELSE 1 + Run(Tail(s), cls)

Drop(s, n) == SubSeq(s, n + 1, Len(s))

\* course.py:8  ^[A-Z]{2,6}\s?\d{3,4}$  (greedy runs decide the match: a
\* letter, a blank and a digit are disjoint classes).
MatchDigitsToEnd(s) ==
    /\ Run(s, Digit) = Len(s)
    /\ Len(s) >= CodeDigitsMin
    /\ Len(s) <= CodeDigitsMax

MatchCourseCode(s) ==
    LET n == Run(s, Upper)
        rest == Drop(s, n)
    IN  /\ n >= CodeLettersMin
        /\ n <= CodeLettersMax
        /\ \/ MatchDigitsToEnd(rest)
           \/ /\ rest # <<>>
              /\ Head(rest) \in Space
              /\ MatchDigitsToEnd(Tail(rest))

----------------------------------------------------------------------------
(* The ordered dictionary: a sequence of entries [k, v].                   *)

Keys(d) == {d[i].k : i \in 1..Len(d)}
Has(d, k) == k \in Keys(d)
IndexOf(d, k) == CHOOSE i \in 1..Len(d) : d[i].k = k
Get(d, k) == d[IndexOf(d, k)].v
Values(d) == [i \in 1..Len(d) |-> d[i].v]

\* Faulty variant: an assignment to an existing key moves it to the end.
PutMovesToEnd(d, k, v) ==
    Append(SelectSeq(d, LAMBDA e : e.k # k), [k |-> k, v |-> v])

\* d[k] = v: an existing key keeps its place, a new key goes last.
Put(d, k, v) ==
    IF Has(d, k)
    THEN [d EXCEPT ![IndexOf(d, k)] = [k |-> k, v |-> v]]
    ELSE Append(d, [k |-> k, v |-> v])

\* Faulty variant: the entry is deleted from a copy of the dictionary.
DelOnCopy(d, k) == d

\* del d[k]
Del(d, k) ==
    LET i == IndexOf(d, k)
    IN  SubSeq(d, 1, i - 1) \o SubSeq(d, i + 1, Len(d))

----------------------------------------------------------------------------
(* src/models/course.py                                                    *)

CourseFields ==
    {"code", "title", "description", "credits", "start_date", "end_date"}

ValidCode(x) == IsStr(x) /\ MatchCourseCode(x.v)
\* Faulty variant: the lower bound of credits is exclusive (gt=0 for ge=0).
ValidCreditsExclusive(x) ==
    IsInt(x) /\ x.v > CreditsMin /\ x.v <= CreditsMax

ValidCredits(x) == IsInt(x) /\ x.v >= CreditsMin /\ x.v <= CreditsMax
ValidDate(x) == IsStr(x) /\ x.v \in IsoDates

\* What validation makes of a field's JSON value.
ParseField(f, x) ==
    IF f \in {"start_date", "end_date"} /\ IsStr(x) THEN JDate(x.v) ELSE x

\* An Optional[...] field left out of the body or sent as null.
Unset(body, f) == f \notin DOMAIN body \/ IsNull(body[f])

\* CourseBase / CourseCreate: code and title are required, credits is an int
\* (never null), the rest may be null.
CourseCreateValid(body) ==
    /\ "code" \in DOMAIN body /\ ValidCode(body["code"])
    /\ "title" \in DOMAIN body /\ IsStr(body["title"])
    /\ (Unset(body, "description") \/ IsStr(body["description"]))
    /\ "credits" \in DOMAIN body => ValidCredits(body["credits"])
    /\ (Unset(body, "start_date") \/ ValidDate(body["start_date"]))
    /\ (Unset(body, "end_date") \/ ValidDate(body["end_date"]))

CourseDefault(f) == IF f = "credits" THEN JInt(CreditsDefault) ELSE JNull

\* course.model_dump(): the declared fields only (a key the model does not
\* declare, such as id, is dropped), defaults filled in.
CourseCreateDump(body) ==
    [f \in CourseFields |->
        IF f \in DOMAIN body THEN ParseField(f, body[f]) ELSE CourseDefault(f)]

\* CourseUpdate: every field optional.
CourseUpdateValid(body) ==
    /\ (Unset(body, "code") \/ ValidCode(body["code"]))
    /\ (Unset(body, "title") \/ IsStr(body["title"]))
    /\ (Unset(body, "description") \/ IsStr(body["description"]))
    /\ (Unset(body, "credits") \/ ValidCredits(body["credits"]))
    /\ (Unset(body, "start_date") \/ ValidDate(body["start_date"]))
    /\ (Unset(body, "end_date") \/ ValidDate(body["end_date"]))

\* patch.model_dump(exclude_unset=True): the declared fields the body set.
CourseUpdateDump(body) ==
    [f \in (DOMAIN body \cap CourseFields) |-> ParseField(f, body[f])]

\* Faulty variant: id has a default evaluated once (default=uuid4()) in place of a
\* default factory, so every record gets the same identifier.
CourseReadSharedId(data, id, t1, t2) ==
    [code |-> data["code"], title |-> data["title"],
     description |-> data["description"], credits |-> data["credits"],
     start_date |-> data["start_date"], end_date |-> data["end_date"],
     id |-> 1, created_at |-> t1, updated_at |-> t2]

\* CourseRead(**data): id, then created_at, then updated_at, each from its
\* own default factory: two readings of the clock, t1 then t2.
CourseRead(data, id, t1, t2) ==
    [code |-> data["code"], title |-> data["title"],
     description |-> data["description"], credits |-> data["credits"],
     start_date |-> data["start_date"], end_date |-> data["end_date"],
     id |-> id, created_at |-> t1, updated_at |-> t2]

----------------------------------------------------------------------------
(* src/models/enrollment.py                                                *)

EnrollmentFields == {"course_id", "person_id", "status", "semester", "grade"}
EnrollmentUpdateFields == {"status", "grade", "semester"}

\* enrollment.py:8
EnrollmentStatus == {"enrolled", "waitlisted", "dropped", "completed"}

ValidUuid(x) == x.t = "uuid"
ValidStatus(x) == IsStr(x) /\ x.v \in EnrollmentStatus

\* EnrollmentBase / EnrollmentCreate: course_id, person_id and semester are
\* required, status is one of the four literals (never null), grade may be
\* null.
EnrollmentCreateValid(body) ==
    /\ "course_id" \in DOMAIN body /\ ValidUuid(body["course_id"])
    /\ "person_id" \in DOMAIN body /\ ValidUuid(body["person_id"])
    /\ "status" \in DOMAIN body => ValidStatus(body["status"])
    /\ "semester" \in DOMAIN body /\ IsStr(body["semester"])
    /\ (Unset(body, "grade") \/ IsStr(body["grade"]))

EnrollmentDefault(f) == IF f = "status" THEN JStr("enrolled") ELSE JNull

\* enr.model_dump()
EnrollmentCreateDump(body) ==
    [f \in EnrollmentFields |->
        IF f \in DOMAIN body THEN body[f] ELSE EnrollmentDefault(f)]

\* EnrollmentUpdate: status, grade and semester, each optional.
EnrollmentUpdateValid(body) ==
    /\ (Unset(body, "status") \/ ValidStatus(body["status"]))
    /\ (Unset(body, "grade") \/ IsStr(body["grade"]))
    /\ (Unset(body, "semester") \/ IsStr(body["semester"]))

\* patch.model_dump(exclude_unset=True)
EnrollmentUpdateDump(body) ==
    [f \in (DOMAIN body \cap EnrollmentUpdateFields) |-> body[f]]

\* EnrollmentRead(**data): id, then created_at, then updated_at, each from
\* its own default factory.
EnrollmentRead(data, id, t1, t2) ==
    [course_id |-> data["course_id"], person_id |-> data["person_id"],
     status |-> data["status"], semester |-> data["semester"],
     grade |-> data["grade"],
     id |-> id, created_at |-> t1, updated_at |-> t2]

----------------------------------------------------------------------------
(* Shared by the handlers.                                                 *)

\* Faulty variant: the null fields are kept, so a null clears the field.
NotNoneKeepsNull(dump) == dump

\* {k: v for k, v in dump.items() if v is not None}
NotNone(dump) == [f \in {g \in DOMAIN dump : ~IsNull(dump[g])} |-> dump[f]]

\* current.model_copy(update=upd)
ModelCopy(current, upd) ==
    [f \in DOMAIN current |-> IF f \in DOMAIN upd THEN upd[f] ELSE current[f]]

\* updated.updated_at = datetime.utcnow()
Stamp(rec, t) == [rec EXCEPT !["updated_at"] = t]

\* The status FastAPI answers when the body fails validation.
StatusInvalid == 422

NoBody == [t |-> "none"]

Response(op, id, req, status, detail, body) ==
    [op |-> op, id |-> id, req |-> req, status |-> status,
     detail |-> detail, body |-> body]

\* Faulty variant: the 404 is raised without its detail, which then reads "Not Found".
NotFoundNoDetail(op, id, req, what) ==
    Response(op, id, req, 404, "Not Found", NoBody)

NotFound(op, id, req, what) ==
    Response(op, id, req, 404, what, NoBody)

Invalid(op, id, req) ==
    Response(op, id, req, StatusInvalid, "validation error", NoBody)

----------------------------------------------------------------------------
(* src/main.py, courses.                                                   *)

\* datetime.utcnow(): the clock, which has moved on by adv instants since it
\* was last read.
Utcnow(adv) == clock + adv

\* uuid4(): an identifier no earlier call returned.
Uuid4 == issued + 1

\* list(courses.values())
list_courses ==
    /\ resp' = Response("list_courses", 0, NoBody, 200, "", Values(courses))
    /\ UNCHANGED <<courses, enrollments, clock, issued, born, gone, writes,
                   threads>>

\* POST /courses. adv1: how far the clock has moved when created_at's default
\* factory reads it; adv2: how far it moves on before updated_at's does.
create_course(body, adv1, adv2) ==
    IF ~CourseCreateValid(body)
    THEN /\ resp' = Invalid("create_course", 0, body)
         /\ UNCHANGED <<courses, enrollments, clock, issued, born, gone,
                        writes, threads>>
    ELSE /\ issued < MaxIds
         /\ writes < MaxWrites
         /\ clock + adv1 + adv2 <= MaxTime
         /\ LET crs == CourseRead(CourseCreateDump(body), Uuid4,
                                  Utcnow(adv1), Utcnow(adv1 + adv2))
            IN  IF Has(courses, crs.id)
                THEN /\ resp' = Response("create_course", 0, body, 400,
                                 "Course with this ID already exists", NoBody)
                     /\ UNCHANGED <<courses, born, writes>>
                ELSE /\ courses' = Put(courses, crs.id, crs)
                     /\ born' = Append(born, crs.id)
                     /\ writes' = writes + 1
                     /\ resp' = Response("create_course", 0, body, 201, "",
                                         crs)
         /\ issued' = issued + 1
         /\ clock' = clock + adv1 + adv2
         /\ UNCHANGED <<enrollments, gone, threads>>

\* GET /courses/{course_id}
get_course(course_id) ==
    /\ resp' = IF ~Has(courses, course_id)
               THEN NotFound("get_course", course_id, NoBody,
                             "Course not found")
               ELSE Response("get_course", course_id, NoBody, 200, "",
                             Get(courses, course_id))
    /\ UNCHANGED <<courses, enrollments, clock, issued, born, gone, writes,
                   threads>>

\* main.py:83-86: the copy of current with the patch's non-null fields, stamped.
CourseUpdated(current, body, now) ==
    Stamp(ModelCopy(current, NotNone(CourseUpdateDump(body))), now)

\* PUT /courses/{course_id}. The body is validated before the handler's own
\* code runs.
update_course(course_id, body, adv) ==
    IF ~CourseUpdateValid(body)
    THEN /\ resp' = Invalid("update_course", course_id, body)
         /\ UNCHANGED <<courses, enrollments, clock, issued, born, gone,
                        writes, threads>>
    ELSE IF ~Has(courses, course_id)
    THEN /\ resp' = NotFound("update_course", course_id, body,
                             "Course not found")
         /\ UNCHANGED <<courses, enrollments, clock, issued, born, gone,
                        writes, threads>>
    ELSE /\ writes < MaxWrites
         /\ clock + adv <= MaxTime
         /\ LET updated == CourseUpdated(Get(courses, course_id), body,
                                         Utcnow(adv))
            IN  /\ courses' = Put(courses, course_id, updated)
                /\ resp' = Response("update_course", course_id, body, 200, "",
                                    updated)
         /\ writes' = writes + 1
         /\ clock' = clock + adv
         /\ UNCHANGED <<enrollments, issued, born, gone, threads>>

\* Faulty variant: deleting a course also deletes the enrollments that name it.
delete_course_cascade(course_id) ==
    IF ~Has(courses, course_id)
    THEN /\ resp' = NotFound("delete_course", course_id, NoBody,
                             "Course not found")
         /\ UNCHANGED <<courses, enrollments, clock, issued, born, gone,
                        writes, threads>>
    ELSE /\ writes < MaxWrites
         /\ courses' = Del(courses, course_id)
         /\ enrollments' =
               SelectSeq(enrollments,
                         LAMBDA e : e.v["course_id"] # JUuid(course_id))
         /\ gone' = gone \cup {course_id}
         /\ writes' = writes + 1
         /\ resp' = Response("delete_course", course_id, NoBody, 204, "",
                             NoBody)
         /\ UNCHANGED <<clock, issued, born, threads>>

\* DELETE /courses/{course_id}
delete_course(course_id) ==
    IF ~Has(courses, course_id)
    THEN /\ resp' = NotFound("delete_course", course_id, NoBody,
                             "Course not found")
         /\ UNCHANGED <<courses, enrollments, clock, issued, born, gone,
                        writes, threads>>
    ELSE /\ writes < MaxWrites
         /\ courses' = Del(courses, course_id)
         /\ gone' = gone \cup {course_id}
         /\ writes' = writes + 1
         /\ resp' = Response("delete_course", course_id, NoBody, 204, "",
                             NoBody)
         /\ UNCHANGED <<enrollments, clock, issued, born, threads>>

----------------------------------------------------------------------------
(* src/main.py, enrollments.                                               *)

\* list(enrollments.values())
list_enrollments ==
    /\ resp' = Response("list_enrollments", 0, NoBody, 200, "",
                        Values(enrollments))
    /\ UNCHANGED <<courses, enrollments, clock, issued, born, gone, writes,
                   threads>>

\* POST /enrollments
create_enrollment(body, adv1, adv2) ==
    IF ~EnrollmentCreateValid(body)
    THEN /\ resp' = Invalid("create_enrollment", 0, body)
         /\ UNCHANGED <<courses, enrollments, clock, issued, born, gone,
                        writes, threads>>
    ELSE /\ issued < MaxIds
         /\ writes < MaxWrites
         /\ clock + adv1 + adv2 <= MaxTime
         /\ LET new_enr == EnrollmentRead(EnrollmentCreateDump(body), Uuid4,
                                          Utcnow(adv1), Utcnow(adv1 + adv2))
            IN  IF Has(enrollments, new_enr.id)
                THEN /\ resp' = Response("create_enrollment", 0, body, 400,
                                 "Enrollment with this ID already exists",
                                 NoBody)
                     /\ UNCHANGED <<enrollments, born, writes>>
                ELSE /\ enrollments' = Put(enrollments, new_enr.id, new_enr)
                     /\ born' = Append(born, new_enr.id)
                     /\ writes' = writes + 1
                     /\ resp' = Response("create_enrollment", 0, body, 201,
                                         "", new_enr)
         /\ issued' = issued + 1
         /\ clock' = clock + adv1 + adv2
         /\ UNCHANGED <<courses, gone, threads>>

\* GET /enrollments/{enrollment_id}
get_enrollment(enrollment_id) ==
    /\ resp' = IF ~Has(enrollments, enrollment_id)
               THEN NotFound("get_enrollment", enrollment_id, NoBody,
                             "Enrollment not found")
               ELSE Response("get_enrollment", enrollment_id, NoBody, 200, "",
                             Get(enrollments, enrollment_id))
    /\ UNCHANGED <<courses, enrollments, clock, issued, born, gone, writes,
                   threads>>

\* main.py:128-131
EnrollmentUpdated(current, body, now) ==
    Stamp(ModelCopy(current, NotNone(EnrollmentUpdateDump(body))), now)

\* PUT /enrollments/{enrollment_id}
update_enrollment(enrollment_id, body, adv) ==
    IF ~EnrollmentUpdateValid(body)
    THEN /\ resp' = Invalid("update_enrollment", enrollment_id, body)
         /\ UNCHANGED <<courses, enrollments, clock, issued, born, gone,
                        writes, threads>>
    ELSE IF ~Has(enrollments, enrollment_id)
    THEN /\ resp' = NotFound("update_enrollment", enrollment_id, body,
                             "Enrollment not found")
         /\ UNCHANGED <<courses, enrollments, clock, issued, born, gone,
                        writes, threads>>
    ELSE /\ writes < MaxWrites
         /\ clock + adv <= MaxTime
         /\ LET updated == EnrollmentUpdated(Get(enrollments, enrollment_id),
                                             body, Utcnow(adv))
            IN  /\ enrollments' = Put(enrollments, enrollment_id, updated)
                /\ resp' = Response("update_enrollment", enrollment_id, body,
                                    200, "", updated)
         /\ writes' = writes + 1
         /\ clock' = clock + adv
         /\ UNCHANGED <<courses, issued, born, gone, threads>>

\* DELETE /enrollments/{enrollment_id}
delete_enrollment(enrollment_id) ==
    IF ~Has(enrollments, enrollment_id)
    THEN /\ resp' = NotFound("delete_enrollment", enrollment_id, NoBody,
                             "Enrollment not found")
         /\ UNCHANGED <<courses, enrollments, clock, issued, born, gone,
                        writes, threads>>
    ELSE /\ writes < MaxWrites
         /\ enrollments' = Del(enrollments, enrollment_id)
         /\ gone' = gone \cup {enrollment_id}
         /\ writes' = writes + 1
         /\ resp' = Response("delete_enrollment", enrollment_id, NoBody, 204,
                             "", NoBody)
         /\ UNCHANGED <<courses, clock, issued, born, threads>>

----------------------------------------------------------------------------
(* The requests a client sends.                                            *)

COMS4701 == <<"C", "O", "M", "S", "4", "7", "0", "1">>
CS101 == <<"C", "S", " ", "1", "0", "1">>
CS1 == <<"C", "S", "1">>

CourseBodies ==
    {[code |-> JStr(COMS4701), title |-> JStr("AI"), credits |-> JInt(6),
      end_date |-> JNull, id |-> JUuid(1)],
     [code |-> JStr(COMS4701), title |-> JStr("AI"), credits |-> JInt(-1)],
     [code |-> JStr(COMS4701), title |-> JStr("AI"), credits |-> JInt(7)],
     [code |-> JStr(CS1), title |-> JStr("AI"), credits |-> JInt(3)]}

CoursePatches ==
    {[credits |-> JInt(0)],
     [code |-> JStr(CS101), title |-> JNull, description |-> JStr("d"),
      start_date |-> JStr("2025-09-03"), id |-> JUuid(2),
      created_at |-> JStr("1999-01-01T00:00:00")],
     [credits |-> JInt(7)],
     [code |-> JStr(CS1)]}

EnrollmentBodies ==
    {[course_id |-> JUuid(1), person_id |-> JUuid(2),
      semester |-> JStr("Fall 2025")],
     [course_id |-> JStr("COMS4701"), person_id |-> JStr("ra3295"),
      status |-> JStr("enrolled"), semester |-> JStr("Fall 2025"),
      grade |-> JNull]}

EnrollmentPatches ==
    {[status |-> JStr("completed"), semester |-> JNull,
      grade |-> JStr("A+"), course_id |-> JUuid(2)],
     [status |-> JStr("audit")]}

\* How far the clock moves between two readings. Only a request that passes
\* validation gets to read it.
Advance(valid) == IF valid THEN {0, 1} ELSE {0}

----------------------------------------------------------------------------
(* The service, one request at a time.                                     *)

Idle == [pc |-> "idle"]

Init ==
    /\ courses = <<>>
    /\ enrollments = <<>>
    /\ clock = 0
    /\ issued = 0
    /\ resp = Response("none", 0, NoBody, 0, "", NoBody)
    /\ born = <<>>
    /\ gone = {}
    /\ writes = 0
    /\ threads = [w \in 1..MaxThreads |-> Idle]

Next ==
    \/ list_courses
    \/ \E body \in CourseBodies :
          \E adv1, adv2 \in Advance(CourseCreateValid(body)) :
             create_course(body, adv1, adv2)
    \/ \E id \in UUIDs : get_course(id)
    \/ \E id \in UUIDs, body \in CoursePatches :
          \E adv \in Advance(CourseUpdateValid(body) /\ Has(courses, id)) :
             update_course(id, body, adv)
    \/ \E id \in UUIDs : delete_course(id)
    \/ list_enrollments
    \/ \E body \in EnrollmentBodies :
          \E adv1, adv2 \in Advance(EnrollmentCreateValid(body)) :
             create_enrollment(body, adv1, adv2)
    \/ \E id \in UUIDs : get_enrollment(id)
    \/ \E id \in UUIDs, body \in EnrollmentPatches :
          \E adv \in Advance(EnrollmentUpdateValid(body)
                             /\ Has(enrollments, id)) :
             update_enrollment(id, body, adv)
    \/ \E id \in UUIDs : delete_enrollment(id)

Spec == Init /\ [][Next]_vars

----------------------------------------------------------------------------
(* The course handlers in worker threads: a thread runs one handler, one   *)
(* statement of main.py per step, and any other thread may run between two *)
(* statements. A body that fails validation never reaches a handler.       *)

\* The status FastAPI answers when a handler raises (here: KeyError).
StatusError == 500

ValidCourseBodies == {b \in CourseBodies : CourseCreateValid(b)}
ValidCoursePatches == {b \in CoursePatches : CourseUpdateValid(b)}

\* A thread at statement pc of the handler serving (id, body), with the
\* handler's locals: crs / current in cur, updated in upd.
At(pc, id, body, cur, upd) ==
    [pc |-> pc, id |-> id, body |-> body, cur |-> cur, upd |-> upd]

Goto(w, pc) == threads' = [threads EXCEPT ![w].pc = pc]

\* The handler returns or raises: the response goes out, the thread is free.
Reply(w, r) ==
    /\ resp' = r
    /\ threads' = [threads EXCEPT ![w] = Idle]

KeyError(op, id, req) ==
    Response(op, id, req, StatusError, "Internal Server Error", NoBody)

\* A free thread takes the next request.
Accept(w, pc, id, body) ==
    /\ threads[w] = Idle
    /\ writes < MaxWrites
    /\ writes' = writes + 1
    /\ threads' = [threads EXCEPT ![w] = At(pc, id, body, NoBody, NoBody)]
    /\ UNCHANGED <<courses, enrollments, clock, issued, resp, born, gone>>

\* main.py:64  crs = CourseRead(**course.model_dump())
create_course_64(w, adv1, adv2) ==
    /\ threads[w].pc = "create_course:64"
    /\ issued < MaxIds
    /\ clock + adv1 + adv2 <= MaxTime
    /\ threads' = [threads EXCEPT ![w].pc = "create_course:65",
                      ![w].cur = CourseRead(CourseCreateDump(threads[w].body),
                                     Uuid4, Utcnow(adv1), Utcnow(adv1 + adv2))]
    /\ issued' = issued + 1
    /\ clock' = clock + adv1 + adv2
    /\ UNCHANGED <<courses, enrollments, resp, born, gone, writes>>

\* main.py:65-66  if crs.id in courses: raise HTTPException(400)
create_course_65(w) ==
    /\ threads[w].pc = "create_course:65"
    /\ IF Has(courses, threads[w].cur["id"])
       THEN Reply(w, Response("create_course", 0, threads[w].body, 400,
                              "Course with this ID already exists", NoBody))
       ELSE Goto(w, "create_course:67") /\ UNCHANGED resp
    /\ UNCHANGED <<courses, enrollments, clock, issued, born, gone, writes>>

\* main.py:67-68  courses[crs.id] = crs; return crs
create_course_67(w) ==
    /\ threads[w].pc = "create_course:67"
    /\ courses' = Put(courses, threads[w].cur["id"], threads[w].cur)
    /\ born' = Append(born, threads[w].cur["id"])
    /\ Reply(w, Response("create_course", 0, threads[w].body, 201, "",
                         threads[w].cur))
    /\ UNCHANGED <<enrollments, clock, issued, gone, writes>>

\* main.py:73-74  if course_id not in courses: raise HTTPException(404)
get_course_73(w) ==
    /\ threads[w].pc = "get_course:73"
    /\ IF ~Has(courses, threads[w].id)
       THEN Reply(w, NotFound("get_course", threads[w].id, NoBody,
                              "Course not found"))
       ELSE Goto(w, "get_course:75") /\ UNCHANGED resp
    /\ UNCHANGED <<courses, enrollments, clock, issued, born, gone, writes>>

\* main.py:75  return courses[course_id]
get_course_75(w) ==
    /\ threads[w].pc = "get_course:75"
    /\ Reply(w, IF ~Has(courses, threads[w].id)
                THEN KeyError("get_course", threads[w].id, NoBody)
                ELSE Response("get_course", threads[w].id, NoBody, 200, "",
                              Get(courses, threads[w].id)))
    /\ UNCHANGED <<courses, enrollments, clock, issued, born, gone, writes>>

\* main.py:80-81  if course_id not in courses: raise HTTPException(404)
update_course_80(w) ==
    /\ threads[w].pc = "update_course:80"
    /\ IF ~Has(courses, threads[w].id)
       THEN Reply(w, NotFound("update_course", threads[w].id, threads[w].body,
                              "Course not found"))
       ELSE Goto(w, "update_course:82") /\ UNCHANGED resp
    /\ UNCHANGED <<courses, enrollments, clock, issued, born, gone, writes>>

\* main.py:82  current = courses[course_id]
update_course_82(w) ==
    /\ threads[w].pc = "update_course:82"
    /\ IF ~Has(courses, threads[w].id)
       THEN Reply(w, KeyError("update_course", threads[w].id, threads[w].body))
       ELSE /\ threads' = [threads EXCEPT ![w].pc = "update_course:83",
                              ![w].cur = Get(courses, threads[w].id)]
            /\ UNCHANGED resp
    /\ UNCHANGED <<courses, enrollments, clock, issued, born, gone, writes>>

\* main.py:83-86  updated = current.model_copy(...); updated.updated_at = now
update_course_83(w, adv) ==
    /\ threads[w].pc = "update_course:83"
    /\ clock + adv <= MaxTime
    /\ threads' = [threads EXCEPT ![w].pc = "update_course:87",
                      ![w].upd = CourseUpdated(threads[w].cur, threads[w].body,
                                               Utcnow(adv))]
    /\ clock' = clock + adv
    /\ UNCHANGED <<courses, enrollments, issued, resp, born, gone, writes>>

\* main.py:87-88  courses[course_id] = updated; return updated
update_course_87(w) ==
    /\ threads[w].pc = "update_course:87"
    /\ courses' = Put(courses, threads[w].id, threads[w].upd)
    /\ Reply(w, Response("update_course", threads[w].id, threads[w].body, 200,
                         "", threads[w].upd))
    /\ UNCHANGED <<enrollments, clock, issued, born, gone, writes>>

\* main.py:93-94  if course_id not in courses: raise HTTPException(404)
delete_course_93(w) ==
    /\ threads[w].pc = "delete_course:93"
    /\ IF ~Has(courses, threads[w].id)
       THEN Reply(w, NotFound("delete_course", threads[w].id, NoBody,
                              "Course not found"))
       ELSE Goto(w, "delete_course:95") /\ UNCHANGED resp
    /\ UNCHANGED <<courses, enrollments, clock, issued, born, gone, writes>>

\* main.py:95-96  del courses[course_id]; return None
delete_course_95(w) ==
    /\ threads[w].pc = "delete_course:95"
    /\ IF ~Has(courses, threads[w].id)
       THEN /\ Reply(w, KeyError("delete_course", threads[w].id, NoBody))
            /\ UNCHANGED <<courses, gone>>
       ELSE /\ courses' = Del(courses, threads[w].id)
            /\ gone' = gone \cup {threads[w].id}
            /\ Reply(w, Response("delete_course", threads[w].id, NoBody, 204,
                                 "", NoBody))
    /\ UNCHANGED <<enrollments, clock, issued, born, writes>>

Workers == 1..MaxThreads

NextConc ==
    \/ \E w \in Workers, body \in ValidCourseBodies :
          Accept(w, "create_course:64", 0, body)
    \/ \E w \in Workers, id \in UUIDs : Accept(w, "get_course:73", id, NoBody)
    \/ \E w \in Workers, id \in UUIDs, body \in ValidCoursePatches :
          Accept(w, "update_course:80", id, body)
    \/ \E w \in Workers, id \in UUIDs :
          Accept(w, "delete_course:93", id, NoBody)
    \/ \E w \in Workers, adv1, adv2 \in {0, 1} : create_course_64(w, adv1, adv2)
    \/ \E w \in Workers : create_course_65(w)
    \/ \E w \in Workers : create_course_67(w)
    \/ \E w \in Workers : get_course_73(w)
    \/ \E w \in Workers : get_course_75(w)
    \/ \E w \in Workers : update_course_80(w)
    \/ \E w \in Workers : update_course_82(w)
    \/ \E w \in Workers, adv \in {0, 1} : update_course_83(w, adv)
    \/ \E w \in Workers : update_course_87(w)
    \/ \E w \in Workers : delete_course_93(w)
    \/ \E w \in Workers : delete_course_95(w)

SpecConc == Init /\ [][NextConc]_vars

----------------------------------------------------------------------------
(* What the responses and the stores must satisfy.                         *)

CourseOps ==
    {"list_courses", "create_course", "get_course", "update_course",
     "delete_course"}
EnrollmentOps ==
    {"list_enrollments", "create_enrollment", "get_enrollment",
     "update_enrollment", "delete_enrollment"}

\* The value a patch gives field f, if it gives one: f is a field the update
\* model declares, the body has it, and it is not null.
Patches(patch, declared, f) ==
    f \in declared /\ f \in DOMAIN patch /\ ~IsNull(patch[f])

\* out is r with the patch's non-null fields, updated_at apart.
Merged(r, patch, declared, out) ==
    /\ DOMAIN out = DOMAIN r
    /\ \A f \in DOMAIN r \ {"updated_at"} :
          out[f] = IF Patches(patch, declared, f)
                   THEN ParseField(f, patch[f])
                   ELSE r[f]

\* C1: a successful update stores and returns the record it found with every
\* declared field the patch gives a non-null value set to that value, and
\* every other field (absent, null, id, created_at) as it was.
C1_UpdateMergesPatch ==
    [][/\ (resp'.op = "update_course" /\ resp'.status = 200) =>
            /\ Has(courses, resp'.id)
            /\ Has(courses', resp'.id)
            /\ Get(courses', resp'.id) = resp'.body
            /\ Merged(Get(courses, resp'.id), resp'.req, CourseFields,
                      resp'.body)
       /\ (resp'.op = "update_enrollment" /\ resp'.status = 200) =>
            /\ Has(enrollments, resp'.id)
            /\ Has(enrollments', resp'.id)
            /\ Get(enrollments', resp'.id) = resp'.body
            /\ Merged(Get(enrollments, resp'.id), resp'.req,
                      EnrollmentUpdateFields, resp'.body)]_vars

\* C1 witness: an update answered 200 whose patch set code, gave null for
\* title and carried an id, and the record kept its title and its id.
C1_Witness ==
    /\ resp.op = "update_course"
    /\ resp.status = 200
    /\ "title" \in DOMAIN resp.req /\ IsNull(resp.req["title"])
    /\ "id" \in DOMAIN resp.req /\ resp.req["id"] # JUuid(resp.id)
    /\ resp.body["code"] = JStr(CS101)
    /\ resp.body["title"] = JStr("AI")
    /\ resp.body["id"] = resp.id

\* C2: under any interleaving of the course requests, a course whose DELETE
\* answered 204 is not a key of the store again (no update that read it
\* before the delete puts it back).
C2_DeletedNeverReturns == \A id \in gone : ~Has(courses, id)

\* C3: once DELETE of an identifier has answered 204 the identifier is a key
\* of neither store, in every later state, and every later GET or DELETE of
\* it answers 404.
C3_DeletedStaysGone ==
    [][/\ \A id \in gone' : ~Has(courses', id) /\ ~Has(enrollments', id)
       /\ (/\ resp'.op \in {"get_course", "delete_course", "get_enrollment",
                            "delete_enrollment"}
           /\ resp'.id \in gone) => resp'.status = 404]_vars

\* C3 witness: a GET of a deleted identifier answered 404 while the store
\* holds another record.
C3_Witness ==
    /\ resp.op = "get_course"
    /\ resp.id \in gone
    /\ resp.status = 404
    /\ courses # <<>>

\* C4: a record returned by a successful create has created_at equal to
\* updated_at.
C4_CreatedAtEqualsUpdatedAt ==
    (resp.op \in {"create_course", "create_enrollment"} /\ resp.status = 201)
        => resp.body["created_at"] = resp.body["updated_at"]

\* C5: a successful update sets updated_at strictly above the record's
\* previous updated_at and strictly above its created_at.
C5_UpdatedAtStrictlyGrows ==
    [][/\ (resp'.op = "update_course" /\ resp'.status = 200) =>
            /\ resp'.body["updated_at"]
                  > Get(courses, resp'.id)["updated_at"]
            /\ resp'.body["updated_at"] > resp'.body["created_at"]
       /\ (resp'.op = "update_enrollment" /\ resp'.status = 200) =>
            /\ resp'.body["updated_at"]
                  > Get(enrollments, resp'.id)["updated_at"]
            /\ resp'.body["updated_at"] > resp'.body["created_at"]]_vars

\* The payloads C6 names: credits outside 0..6, the code "CS1".
CreditsOutOfRange(req) ==
    /\ "credits" \in DOMAIN req
    /\ IsInt(req["credits"])
    /\ (req["credits"].v < 0 \/ req["credits"].v > 6)

CodeCS1(req) == "code" \in DOMAIN req /\ req["code"] = JStr(CS1)

\* The payloads C6 names as accepted: credits 0, credits 6, code "COMS4701".
NamedAccepted(req) ==
    /\ ~CreditsOutOfRange(req)
    /\ ~CodeCS1(req)
    /\ \/ "credits" \in DOMAIN req /\ req["credits"] \in {JInt(0), JInt(6)}
       \/ "code" \in DOMAIN req /\ req["code"] = JStr(COMS4701)

\* A POST or PUT of a course with credits out of range or the code "CS1" is
\* answered with status rejected and leaves the course store as it was; one
\* with credits 0 or 6 or the code "COMS4701" is not answered so.
CourseValidation(rejected) ==
    (resp'.op \in {"create_course", "update_course"}) =>
       /\ (CreditsOutOfRange(resp'.req) \/ CodeCS1(resp'.req)) =>
             (resp'.status = rejected /\ courses' = courses)
       /\ NamedAccepted(resp'.req) =>
             resp'.status \in {200, 201, 404}

UnknownIdentifier(putInvalid) ==
    /\ (/\ resp'.op \in {"get_course", "update_course", "delete_course"}
        /\ ~Has(courses, resp'.id)) =>
         /\ courses' = courses /\ enrollments' = enrollments
         /\ IF resp'.op = "update_course" /\ ~CourseUpdateValid(resp'.req)
            THEN resp'.status = putInvalid
            ELSE resp'.status = 404
         /\ resp'.status = 404 => resp'.detail = "Course not found"
    /\ (/\ resp'.op \in {"get_enrollment", "update_enrollment",
                         "delete_enrollment"}
        /\ ~Has(enrollments, resp'.id)) =>
         /\ courses' = courses /\ enrollments' = enrollments
         /\ IF /\ resp'.op = "update_enrollment"
               /\ ~EnrollmentUpdateValid(resp'.req)
            THEN resp'.status = putInvalid
            ELSE resp'.status = 404
         /\ resp'.status = 404 => resp'.detail = "Enrollment not found"

\* C7 as stated: every GET, PUT or DELETE of an unknown identifier answers
\* 404, never another error, and leaves both stores as they were.
C7_UnknownIdAlways404 == [][UnknownIdentifier(404)]_vars

\* C7, amended: a GET or DELETE of an unknown identifier, and a PUT of one
\* whose body passes validation, answer 404 with the store's detail; a PUT
\* whose body fails validation answers 422; both stores stay as they were.
C7_UnknownId404OrInvalid == [][UnknownIdentifier(StatusInvalid)]_vars

\* C7 witness: DELETE of an unknown enrollment answered 404 "Enrollment not
\* found" while the store holds a record.
C7_Witness ==
    /\ resp.op = "delete_enrollment"
    /\ resp.status = 404
    /\ resp.detail = "Enrollment not found"
    /\ enrollments # <<>>
    /\ ~Has(enrollments, resp.id)

\* Every key maps to a record with that id, and no key occurs twice.
KeysAreIds(d) ==
    \A i \in 1..Len(d) :
       /\ d[i].v["id"] = d[i].k
       /\ \A j \in 1..Len(d) : d[i].k = d[j].k => i = j

\* A create that passed validation answered 201 with a record whose id was no
\* key, and the store is the old store with that record added under its id.
Inserted(d, dNew, r) ==
    /\ r.status = 201
    /\ ~Has(d, r.body["id"])
    /\ dNew = Append(d, [k |-> r.body["id"], v |-> r.body])

\* C8 as stated: a create whose body carries an identifier that is a key of
\* the store is answered 400 and leaves the store as it was.
C8_ClientDuplicateRejected ==
    [][(/\ resp'.op = "create_course"
        /\ "id" \in DOMAIN resp'.req
        /\ Has(courses, resp'.req["id"].v)) =>
            (resp'.status = 400 /\ courses' = courses)]_vars

\* C8, amended: an identifier in the body is ignored; a create that passes
\* validation is answered 201 and stores the returned record under a
\* generated identifier that was no key, every other entry as it was; every
\* key maps to a record with that id and no two records share an id.
C8_CreateNeverOverwrites ==
    [][/\ (resp'.op = "create_course" /\ resp'.status # StatusInvalid) =>
            Inserted(courses, courses', resp')
       /\ (resp'.op = "create_enrollment" /\ resp'.status # StatusInvalid) =>
            Inserted(enrollments, enrollments', resp')
       /\ KeysAreIds(courses')
       /\ KeysAreIds(enrollments')]_vars

\* C8 witness: a create whose body carried the identifier of a stored course
\* was answered 201 with a record under another identifier.
C8_Witness ==
    /\ resp.op = "create_course"
    /\ resp.status = 201
    /\ "id" \in DOMAIN resp.req
    /\ Has(courses, resp.req["id"].v)
    /\ resp.body["id"] # resp.req["id"].v
    /\ Len(courses) = 2

\* The ids of a store's records, in the store's order.
IdsOf(d) == [i \in 1..Len(d) |-> d[i].v["id"]]

\* The identifiers inserted, in order, that are still keys of d.
StillIn(d) ==
    LET kept(id) == Has(d, id)
    IN  SelectSeq(born, kept)

\* C9: a store lists exactly its records, each once, in the order of their
\* insertion, whatever updates and deletes came between; the response of
\* list() is that sequence.
C9_ListInInsertionOrder ==
    /\ IdsOf(courses) = StillIn(courses)
    /\ IdsOf(enrollments) = StillIn(enrollments)
    /\ resp.op = "list_courses" =>
          (resp.status = 200 /\ resp.body = Values(courses))
    /\ resp.op = "list_enrollments" =>
          (resp.status = 200 /\ resp.body = Values(enrollments))

\* C9 witness: a list of two courses after the first of them was updated.
C9_Witness ==
    /\ resp.op = "list_courses"
    /\ Len(resp.body) = 2
    /\ resp.body[1]["credits"] = JInt(0)
    /\ resp.body[2]["credits"] = JInt(6)
    /\ resp.body[1]["id"] < resp.body[2]["id"]

\* C10: a course request leaves the enrollment store as it was and an
\* enrollment request leaves the course store as it was; a create of an
\* enrollment whose course_id and person_id are UUIDs is answered 201 whether
\* or not course_id is a key of the course store.
C10_StoresIndependent ==
    [][/\ resp'.op \in CourseOps => enrollments' = enrollments
       /\ resp'.op \in EnrollmentOps => courses' = courses
       /\ (/\ resp'.op = "create_enrollment"
           /\ resp'.req["course_id"].t = "uuid"
           /\ resp'.req["person_id"].t = "uuid") => resp'.status = 201]_vars

\* C10 witness: a course was deleted with 204 and an enrollment that names it
\* is still stored.
C10_Witness ==
    /\ resp.op = "delete_course"
    /\ resp.status = 204
    /\ \E i \in 1..Len(enrollments) :
          enrollments[i].v["course_id"] = JUuid(resp.id)

=============================================================================
